---- MODULE Spec2Model ----
(***************************************************************************)
(* Model of the taskmgr client data layer:                                 *)
(*   ProjectService / TaskListService   (src/unnamed/part_000)             *)
(*   quote reducer                      (src/unnamed/part_001)             *)
(*   store composition and selectors    (src/src/app/services/             *)
(*                                       task.service.ts, lines 46-205)    *)
(*                                                                         *)
(* A service method returns a cold observable; the model follows ONE       *)
(* subscription of ONE method call from the subscribe to its terminal      *)
(* notification.  Every HTTP request the subscription issues is appended   *)
(* to `req`; the backend applies a request and the response (or failure)   *)
(* reaches the client as separate steps, so that every interleaving of     *)
(* the in-flight requests is explored.                                     *)
(***************************************************************************)
EXTENDS Integers, Sequences, FiniteSets

\* ------------------------------------------------------------------ bounds
NumLists == 3
MaxMembers == 2
MaxUsers == 2
NumUserIds == 3
NumSelLists == 3
MaxOrder == 10
MaxLog == 3

ListIds == 1..NumLists
UserIds == 1..NumUserIds
Orders == 1..MaxOrder

\* ----------------------------------------------------------------- helpers
Range(s) == {s[i] : i \in 1..Len(s)}

SeqsUpTo(S, n) == UNION {[1..k -> S] : k \in 0..n}

InjSeqs(S, n) == {s \in SeqsUpTo(S, n) : \A i, j \in 1..Len(s) : i # j => s[i] # s[j]}

\* JavaScript `undefined`
Undefined == [undefined |-> TRUE]

NoBody == [none |-> TRUE]

VARIABLES
  op,       \* the service method whose subscription is followed ("idle" before)
  arg,      \* the arguments of the call
  req,      \* the HTTP requests issued so far, in issue order
  acc,      \* the accumulator of the count()/reduce() stage
  emitted,  \* the values the returned observable has emitted
  fin,      \* the returned observable: "idle", "open", "complete" or "error"
  db,       \* the backend's records
  store,    \* the application state tree held by the store
  log,      \* the actions dispatched so far (what logger prints)
  sel       \* the last selector evaluation: its inputs and its result

vars == <<op, arg, req, acc, emitted, fin, db, store, log, sel>>

\* ------------------------------------------------------------ HTTP requests
\* A request as the client sees it: cs is "inflight", "ok", "err" or
\* "aborted" (unsubscribed before its response); applied says whether the
\* backend has carried it out, resp is the body the backend answered with.
Request(m, res, id, body) ==
  [m |-> m, res |-> res, id |-> id, body |-> body,
   cs |-> "inflight", applied |-> FALSE, resp |-> NoBody]

Issued(m, res) == {i \in 1..Len(req) : req[i].m = m /\ req[i].res = res}

\* Unsubscribing the inner observables of a merge/mergeMap on error aborts
\* every request still in flight.
Abort(rs) == [i \in 1..Len(rs) |->
                IF rs[i].cs = "inflight" THEN [rs[i] EXCEPT !.cs = "aborted"] ELSE rs[i]]

SetCs(rs, i, c) == [rs EXCEPT ![i].cs = c]

\* ----------------------------------------------------------------- backend
\* REST backend: a DELETE removes the record, a PATCH merges the body into
\* the record, a POST creates the record under a fresh id, a GET reads it.
NewId == NumLists + Len(db.created) + 1

BackendApply(r) ==
  CASE r.m = "DELETE" /\ r.res = "taskLists" ->
         [d |-> [db EXCEPT !.gone = @ \cup {r.id}], resp |-> NoBody]
    [] r.m = "DELETE" /\ r.res = "projects" ->
         [d |-> [db EXCEPT !.projGone = TRUE], resp |-> NoBody]
    [] r.m = "PATCH" /\ r.res = "taskLists" ->
         [d |-> [db EXCEPT !.order[r.id] = r.body.order],
          resp |-> [id |-> r.id, order |-> r.body.order]]
    [] r.m = "POST" /\ r.res = "taskLists" ->
         [d |-> [db EXCEPT !.created = Append(@, [id |-> NewId,
                                                   name |-> r.body.name,
                                                   projectId |-> r.body.projectId,
                                                   order |-> r.body.order])],
          resp |-> [id |-> NewId, name |-> r.body.name,
                    projectId |-> r.body.projectId, order |-> r.body.order]]
    [] r.m = "GET" /\ r.res = "projects" ->
         [d |-> db, resp |-> [id |-> r.id, members |-> db.members]]
    [] r.m = "PATCH" /\ r.res = "projects" ->
         [d |-> [db EXCEPT !.members = r.body.members],
          resp |-> [id |-> r.id, members |-> r.body.members]]

\* The backend carries out a request that has been sent.  An aborted request
\* was already on the wire and may still be carried out.
ServerApply(i) ==
  /\ i \in 1..Len(req)
  /\ req[i].cs \in {"inflight", "aborted"}
  /\ ~req[i].applied
  /\ LET a == BackendApply(req[i]) IN
       /\ db' = a.d
       /\ req' = [req EXCEPT ![i].applied = TRUE, ![i].resp = a.resp]
  /\ UNCHANGED <<op, arg, acc, emitted, fin, store, log, sel>>

\* A success response can arrive once the backend has applied the request;
\* a failure can arrive any time the request is in flight.
CanSucceed(i) == i \in 1..Len(req) /\ fin = "open" /\ req[i].cs = "inflight" /\ req[i].applied
CanFail(i) == i \in 1..Len(req) /\ fin = "open" /\ req[i].cs = "inflight"

\* ------------------------------------------------------ ProjectService.del
\* Projects a caller can pass: taskLists absent, or a list of distinct ids.
Projects ==
  {[id |-> "p1", hasTaskLists |-> h, taskLists |-> t] :
     h \in BOOLEAN, t \in InjSeqs(ListIds, NumLists)} \
  {[id |-> "p1", hasTaskLists |-> FALSE, taskLists |-> t] :
     t \in InjSeqs(ListIds, NumLists) \ {<<>>}}

\* project.taskLists ? project.taskLists : []
ListsOf(project) == IF project.hasTaskLists THEN project.taskLists ELSE <<>>

DeleteList(listId) == Request("DELETE", "taskLists", listId, NoBody)
DeleteProject(project) == Request("DELETE", "projects", project.id, NoBody)

\* variant: the project delete merged with the list deletes at subscribe
DelAtSubscribe(rs, project, n) ==
  IF n = 0 THEN Append(rs, Request("DELETE", "projects", project.id, NoBody)) ELSE rs

\* deltask$ emits its count once every inner delete has completed; switchMap
\* then issues the project delete.
DelAfterCount(rs, project, n) ==
  IF n = Len(ListsOf(project)) THEN Append(rs, DeleteProject(project)) ELSE rs

\* subscribe: from(taskLists).mergeMap(delete) subscribes every inner delete
\* synchronously; with no task lists count() emits 0 at once.
del(project) ==
  /\ op = "idle"
  /\ op' = "del"
  /\ arg' = [project |-> project]
  /\ acc' = 0
  /\ req' = DelAfterCount([i \in 1..Len(ListsOf(project)) |-> DeleteList(ListsOf(project)[i])],
                          project, 0)
  /\ fin' = "open"
  /\ UNCHANGED <<emitted, db, store, log, sel>>

delListOk(i) ==
  /\ op = "del" /\ CanSucceed(i) /\ req[i].res = "taskLists"
  /\ acc' = acc + 1
  /\ req' = DelAfterCount(SetCs(req, i, "ok"), arg.project, acc + 1)
  /\ UNCHANGED <<op, arg, emitted, fin, db, store, log, sel>>

delProjectOk(i) ==
  /\ op = "del" /\ CanSucceed(i) /\ req[i].res = "projects"
  /\ req' = SetCs(req, i, "ok")
  /\ emitted' = Append(emitted, arg.project)
  /\ fin' = "complete"
  /\ UNCHANGED <<op, arg, acc, db, store, log, sel>>

\* variant: a failed delete caught and counted like a completed one
delErrCaught(i) ==
  /\ op = "del" /\ CanFail(i)
  /\ acc' = acc + 1
  /\ req' = IF req[i].res = "taskLists"
             THEN DelAfterCount(SetCs(req, i, "err"), arg.project, acc + 1)
             ELSE SetCs(req, i, "err")
  /\ UNCHANGED <<op, arg, emitted, fin, db, store, log, sel>>

delErr(i) ==
  /\ op = "del" /\ CanFail(i)
  /\ req' = Abort(SetCs(req, i, "err"))
  /\ fin' = "error"
  /\ UNCHANGED <<op, arg, acc, emitted, db, store, log, sel>>

\* ------------------------------------------------- TaskListService.swapOrder
\* variant: every source subscribed at once, as forkJoin or merge would
SubscribeAll(sources, k) == IF k = 1 THEN sources ELSE <<>>

\* Observable.concat subscribes to its k-th source only when the (k-1)-th
\* has completed: the requests issued on reaching position k.
Concat(sources, k) == IF k <= Len(sources) THEN <<sources[k]>> ELSE <<>>

\* The task lists a caller can pass: the backend's records as last fetched.
TaskLists == {[id |-> i, order |-> db.order[i]] : i \in ListIds}

PatchOrder(id, order) == Request("PATCH", "taskLists", id, [order |-> order])

\* drag$ then drop$
SwapSources(src, target) ==
  <<PatchOrder(src.id, target.order), PatchOrder(target.id, src.order)>>

swapOrder(src, target) ==
  /\ op = "idle"
  /\ op' = "swapOrder"
  /\ arg' = [src |-> src, target |-> target]
  /\ acc' = <<>>
  /\ req' = Concat(SwapSources(src, target), 1)
  /\ fin' = "open"
  /\ UNCHANGED <<emitted, db, store, log, sel>>

\* a PATCH answers: reduce appends the body; concat moves on to the next
\* source, and after the last one reduce emits the collected array.
swapOk(i) ==
  /\ op = "swapOrder" /\ CanSucceed(i)
  /\ acc' = Append(acc, req[i].resp)
  /\ req' = SetCs(req, i, "ok") \o Concat(SwapSources(arg.src, arg.target), Len(acc) + 2)
  /\ IF Len(acc) + 1 = Len(SwapSources(arg.src, arg.target))
       THEN emitted' = Append(emitted, acc') /\ fin' = "complete"
       ELSE UNCHANGED <<emitted, fin>>
  /\ UNCHANGED <<op, arg, db, store, log, sel>>

swapErr(i) ==
  /\ op = "swapOrder" /\ CanFail(i)
  /\ req' = Abort(SetCs(req, i, "err"))
  /\ fin' = "error"
  /\ UNCHANGED <<op, arg, acc, emitted, db, store, log, sel>>

\* --------------------------------------- TaskListService.initializeTaskLists
\* Observable.merge subscribes to every source at once.
Merge(sources) == sources

AddTaskList(taskList) == Request("POST", "taskLists", 0, taskList)

\* the three default lists: to do, in progress, done
InitSources(prj) ==
  <<AddTaskList([name |-> "todo", projectId |-> prj.id, order |-> 1]),
    AddTaskList([name |-> "doing", projectId |-> prj.id, order |-> 2]),
    AddTaskList([name |-> "done", projectId |-> prj.id, order |-> 3])>>

initializeTaskLists(prj) ==
  /\ op = "idle"
  /\ op' = "initializeTaskLists"
  /\ arg' = [prj |-> prj]
  /\ acc' = <<>>
  /\ req' = Merge(InitSources(prj))
  /\ fin' = "open"
  /\ UNCHANGED <<emitted, db, store, log, sel>>

\* tls.map(tl => tl.id)
IdsOf(tls) == [k \in 1..Len(tls) |-> tls[k].id]

\* ({...prj, taskLists: tls.map(tl => tl.id)})
WithTaskLists(prj, tls) == [prj EXCEPT !.hasTaskLists = TRUE, !.taskLists = IdsOf(tls)]

\* a POST answers: reduce appends the created list in arrival order; when
\* the last source has completed the project is emitted.
initAddOk(i) ==
  /\ op = "initializeTaskLists" /\ CanSucceed(i)
  /\ acc' = Append(acc, req[i].resp)
  /\ req' = SetCs(req, i, "ok")
  /\ IF Len(acc) + 1 = Len(req)
       THEN emitted' = Append(emitted, WithTaskLists(arg.prj, acc')) /\ fin' = "complete"
       ELSE UNCHANGED <<emitted, fin>>
  /\ UNCHANGED <<op, arg, db, store, log, sel>>

initErr(i) ==
  /\ op = "initializeTaskLists" /\ CanFail(i)
  /\ req' = Abort(SetCs(req, i, "err"))
  /\ fin' = "error"
  /\ UNCHANGED <<op, arg, acc, emitted, db, store, log, sel>>

\* ----------------------------------------------- ProjectService.inviteMembers
\* lodash uniq: the first occurrence of every value, in order
RECURSIVE uniq(_)
uniq(s) ==
  IF s = <<>> THEN <<>>
  ELSE LET r == uniq(SubSeq(s, 1, Len(s) - 1)) IN
         IF s[Len(s)] \in Range(r) THEN r ELSE Append(r, s[Len(s)])

\* variant: the arrays concatenated, duplicates kept
concatIds(a, b) == a \o b

\* _.union(a, b): the arrays flattened into one, then uniq
union(a, b) == uniq(a \o b)

\* the users a caller can pass
UserLists == SeqsUpTo([id : UserIds], MaxUsers)

\* users.map(user => user.id)
InvitedIds(users) == [k \in 1..Len(users) |-> users[k].id]

inviteMembers(projectId, users) ==
  /\ op = "idle"
  /\ op' = "inviteMembers"
  /\ arg' = [projectId |-> projectId, users |-> users]
  /\ acc' = <<>>
  /\ req' = <<Request("GET", "projects", projectId, NoBody)>>
  /\ fin' = "open"
  /\ UNCHANGED <<emitted, db, store, log, sel>>

\* the project arrives: switchMap issues the PATCH of the merged members
inviteGetOk(i) ==
  /\ op = "inviteMembers" /\ CanSucceed(i) /\ req[i].m = "GET"
  /\ LET project == req[i].resp
         existingMemberIds == project.members
         invitedIds == InvitedIds(arg.users)
         newIds == union(existingMemberIds, invitedIds)
     IN req' = Append(SetCs(req, i, "ok"),
                      Request("PATCH", "projects", arg.projectId, [members |-> newIds]))
  /\ UNCHANGED <<op, arg, acc, emitted, fin, db, store, log, sel>>

invitePatchOk(i) ==
  /\ op = "inviteMembers" /\ CanSucceed(i) /\ req[i].m = "PATCH"
  /\ req' = SetCs(req, i, "ok")
  /\ emitted' = Append(emitted, req[i].resp)
  /\ fin' = "complete"
  /\ UNCHANGED <<op, arg, acc, db, store, log, sel>>

inviteErr(i) ==
  /\ op = "inviteMembers" /\ CanFail(i)
  /\ req' = Abort(SetCs(req, i, "err"))
  /\ fin' = "error"
  /\ UNCHANGED <<op, arg, acc, emitted, db, store, log, sel>>

\* ------------------------------------------------------------ quote reducer
QUOTE_SUCCESS == "QUOTE_SUCCESS"
QUOTE_FAIL == "QUOTE_FAIL"
LOGOUT == "LOGOUT"

\* the hardcoded fallback quote (cn abbreviated)
FallbackQuote ==
  [cn |-> "fallback-cn",
   en |-> "Satisfaction lies in the effort, not in the attainment. Full effort is full victory. ",
   pic |-> "assets/img/quote_fallback.jpg"]

initialState == [quote |-> FallbackQuote]

\* the quotes a QUOTE_SUCCESS can carry
QuotePayloads ==
  {[cn |-> "cn1", en |-> "en1", pic |-> "pic1"],
   [cn |-> "cn2", en |-> "en2", pic |-> "pic2"]}

\* variant: QUOTE_FAIL falls back to the initial quote
reducerFailResets(state, action) ==
  LET s == IF state = Undefined THEN initialState ELSE state IN
    CASE action.type = QUOTE_SUCCESS -> [s EXCEPT !.quote = action.payload]
      [] action.type = QUOTE_FAIL -> initialState
      [] OTHER -> s

\* variant: only the first fetched quote is kept
reducerKeepsFirst(state, action) ==
  LET s == IF state = Undefined THEN initialState ELSE state IN
    IF action.type = QUOTE_SUCCESS /\ s = initialState
      THEN [s EXCEPT !.quote = action.payload] ELSE s

\* reducer(state = initialState, action)
reducer(state, action) ==
  LET s == IF state = Undefined THEN initialState ELSE state IN
    CASE action.type = QUOTE_SUCCESS -> [s EXCEPT !.quote = action.payload]
      [] action.type = QUOTE_FAIL -> s
      [] OTHER -> s

\* ------------------------------------------------- the other slice reducers
\* auth.reducer, project.reducer, task-list.reducer, task.reducer and
\* user.reducer: a slice starts at its initial value, its own action
\* replaces its content with the payload, any other action leaves it alone.
OtherSlices == {"auth", "projects", "taskLists", "tasks", "users"}

SliceInitialState(key) == [slice |-> key, content |-> NoBody]

SliceActionType(key) == "SET_" \o key

sliceReducer(key, state, action) ==
  LET s == IF state = Undefined THEN SliceInitialState(key) ELSE state IN
    IF action.type = SliceActionType(key) THEN [s EXCEPT !.content = action.payload] ELSE s

\* ------------------------------------------------------------ store wiring
initState ==
  [auth |-> SliceInitialState("auth"),
   quote |-> initialState,
   projects |-> SliceInitialState("projects"),
   taskLists |-> SliceInitialState("taskLists"),
   tasks |-> SliceInitialState("tasks"),
   users |-> SliceInitialState("users")]

\* The root reducer StoreModule.forRoot builds from `reducers` and initState:
\* an undefined state stands for initState, then every slice's reducer runs
\* on its own slice.
reducers(state, action) ==
  LET s == IF state = Undefined THEN initState ELSE state IN
    [auth |-> sliceReducer("auth", s.auth, action),
     quote |-> reducer(s.quote, action),
     projects |-> sliceReducer("projects", s.projects, action),
     taskLists |-> sliceReducer("taskLists", s.taskLists, action),
     tasks |-> sliceReducer("tasks", s.tasks, action),
     users |-> sliceReducer("users", s.users, action)]

\* variant: LOGOUT handed on with the state as it is
guardKeepsState(state, action) == reducers(state, action)

\* storeStateGuard(reducer)(state, action)
storeStateGuard(state, action) ==
  IF action.type = LOGOUT THEN reducers(Undefined, action) ELSE reducers(state, action)

\* the actions the application can dispatch
ActionTypes ==
  {QUOTE_SUCCESS, QUOTE_FAIL, LOGOUT, "@@UNKNOWN"} \cup {SliceActionType(k) : k \in OtherSlices}

Actions == [type : ActionTypes, payload : QuotePayloads]

\* store.dispatch(action): the meta-reducers run around the root reducer;
\* logger prints the action and hands it on unchanged.
dispatch(action) ==
  /\ Len(log) < MaxLog
  /\ log' = Append(log, action)
  /\ store' = storeStateGuard(store, action)
  /\ UNCHANGED <<op, arg, req, acc, emitted, fin, db, sel>>

\* -------------------------------------------------------- getMaxListOrder
\* String(n): the decimal digits of n
RECURSIVE toString(_)
toString(n) == IF n < 10 THEN <<n>> ELSE Append(toString(n \div 10), n % 10)

\* a < b as strings, by code unit
StringLess(a, b) ==
  \E k \in 1..Len(b) :
    /\ \A j \in 1..(k - 1) : j <= Len(a) /\ a[j] = b[j]
    /\ IF k <= Len(a) THEN a[k] < b[k] ELSE k = Len(a) + 1

\* Array.prototype.sort without a comparator: the elements are compared as
\* strings.
RECURSIVE Insert(_, _)
Insert(sorted, x) ==
  IF sorted = <<>> THEN <<x>>
  ELSE IF StringLess(toString(x), toString(sorted[Len(sorted)]))
    THEN Append(Insert(SubSeq(sorted, 1, Len(sorted) - 1), x), sorted[Len(sorted)])
    ELSE Append(sorted, x)

RECURSIVE sort(_)
sort(s) == IF s = <<>> THEN <<>> ELSE Insert(sort(SubSeq(s, 1, Len(s) - 1)), s[Len(s)])

\* (entities, ids) => { orders = ids.map(id => entities[id].order);
\*                      return orders.sort()[orders.length - 1]; }
getMaxListOrder(entities, ids) ==
  LET orders == [k \in 1..Len(ids) |-> entities[ids[k]].order] IN
    IF Len(orders) = 0 THEN Undefined ELSE sort(orders)[Len(orders)]

SelListIds == 1..NumSelLists

\* the task-list slice the selector reads: entities by id, selected ids
TaskListEntities ==
  {[i \in SelListIds |-> [id |-> i, order |-> o[i]]] : o \in [SelListIds -> Orders]}

SelectedIds == InjSeqs(SelListIds, NumSelLists)

\* one evaluation of the selector on one state of the slice
select(entities, ids) ==
  /\ sel = NoBody
  /\ sel' = [entities |-> entities, ids |-> ids, result |-> getMaxListOrder(entities, ids)]
  /\ UNCHANGED <<op, arg, req, acc, emitted, fin, db, store, log>>

\* ------------------------------------------------------------------- Init
\* The backend before the call: the project's lists carry the orders 1..n
\* they were created with.
Db(members) ==
  [order |-> [i \in ListIds |-> i], gone |-> {}, projGone |-> FALSE,
   created |-> <<>>, members |-> members]

\* the client after construction: no call made, the store at initState
InitClient ==
  /\ op = "idle"
  /\ arg = NoBody
  /\ req = <<>>
  /\ acc = <<>>
  /\ emitted = <<>>
  /\ fin = "idle"
  /\ store = initState
  /\ log = <<>>
  /\ sel = NoBody

Init == InitClient /\ db = Db(<<>>)

MaxReq == NumLists + 1

\* one subscription of one call of a composite operation, against the backend
Next ==
  \/ \E project \in Projects : del(project)
  \/ \E i \in 1..MaxReq : delListOk(i)
  \/ \E i \in 1..MaxReq : delProjectOk(i)
  \/ \E i \in 1..MaxReq : delErr(i)
  \/ \E src, target \in TaskLists : swapOrder(src, target)
  \/ \E i \in 1..MaxReq : swapOk(i)
  \/ \E i \in 1..MaxReq : swapErr(i)
  \/ \E prj \in Projects : initializeTaskLists(prj)
  \/ \E i \in 1..MaxReq : initAddOk(i)
  \/ \E i \in 1..MaxReq : initErr(i)
  \/ \E i \in 1..MaxReq : ServerApply(i)

Spec == Init /\ [][Next]_vars

\* one subscription of inviteMembers, the project having any members
InitInvite == InitClient /\ db \in {Db(m) : m \in SeqsUpTo(UserIds, MaxMembers)}

NextInvite ==
  \/ \E users \in UserLists : inviteMembers("p1", users)
  \/ \E i \in 1..2 : inviteGetOk(i)
  \/ \E i \in 1..2 : invitePatchOk(i)
  \/ \E i \in 1..2 : inviteErr(i)
  \/ \E i \in 1..2 : ServerApply(i)

SpecInvite == InitInvite /\ [][NextInvite]_vars

\* the store under any sequence of dispatched actions
NextStore == \E action \in Actions : dispatch(action)

SpecStore == Init /\ [][NextStore]_vars

\* the selector over any task-list slice
NextSelect ==
  /\ sel = NoBody
  /\ \E entities \in TaskListEntities, ids \in SelectedIds : select(entities, ids)

SpecSelect == Init /\ [][NextSelect]_vars
\* ===================================================================== claims
Last(s) == s[Len(s)]

\* the first position of x in s
FirstPos(s, x) == CHOOSE i \in 1..Len(s) : s[i] = x /\ \A j \in 1..(i - 1) : s[j] # x

NoDuplicates(s) == \A i, j \in 1..Len(s) : i # j => s[i] # s[j]

ListDeletes == Issued("DELETE", "taskLists")
ProjectDeletes == Issued("DELETE", "projects")

\* C1: del(P) issues exactly one DELETE /taskLists/{id} per id of P.taskLists
\* (none when the field is empty or absent) and no other task-list delete;
\* it issues the DELETE /projects/{P.id} once, and only when every task-list
\* delete has completed; it emits at most once, and when it resolves it has
\* emitted exactly the original P, after the one project delete completed.
C1_DelDeletesListsThenProject ==
  op = "del" =>
    LET P == arg.project
        L == ListsOf(P) IN
      /\ \A k \in 1..Len(L) : Cardinality({i \in ListDeletes : req[i].id = L[k]}) = 1
      /\ Cardinality(ListDeletes) = Len(L)
      /\ (~P.hasTaskLists \/ P.taskLists = <<>>) => ListDeletes = {}
      /\ Cardinality(ProjectDeletes) <= 1
      /\ \A i \in ProjectDeletes :
           /\ req[i].id = P.id
           /\ \A j \in ListDeletes : req[j].cs = "ok" /\ j < i
      /\ (\A j \in ListDeletes : req[j].cs = "ok") => Cardinality(ProjectDeletes) = 1
      /\ Len(emitted) <= 1
      /\ emitted # <<>> => fin = "complete"
      /\ fin = "complete" =>
           /\ emitted = <<P>>
           /\ \E i \in ProjectDeletes : req[i].cs = "ok"

\* del of a project with at least two task lists has resolved
C1_Witness ==
  /\ op = "del" /\ fin = "complete"
  /\ Len(ListsOf(arg.project)) >= 2
  /\ emitted = <<arg.project>>

\* the id the backend gave the list created with order k
CreatedId(k) == req[k].resp.id

\* C2: initializeTaskLists issues exactly 3 creations, with orders 1, 2, 3 and
\* the project's id, and, whatever the order the responses arrive in, resolves
\* with taskLists = <<id of the order-1 list, id of the order-2 list, id of
\* the order-3 list>>.
C2_InitTaskListsInCreationOrder ==
  op = "initializeTaskLists" =>
    /\ Len(req) = 3
    /\ \A k \in 1..3 :
         /\ req[k].m = "POST" /\ req[k].res = "taskLists"
         /\ req[k].body.order = k
         /\ req[k].body.projectId = arg.prj.id
    /\ fin = "complete" =>
         /\ Len(emitted) = 1
         /\ emitted[1].id = arg.prj.id
         /\ emitted[1].taskLists = <<CreatedId(1), CreatedId(2), CreatedId(3)>>

OrdersDistinct == \A a, b \in ListIds : a # b => db.order[a] # db.order[b]

SwapExchanged ==
  /\ db.order[arg.src.id] = arg.target.order
  /\ db.order[arg.target.id] = arg.src.order

SwapUnchanged ==
  /\ db.order[arg.src.id] = arg.src.order
  /\ db.order[arg.target.id] = arg.target.order

\* C3: once a swapOrder call has finished, resolved or failed, the orders of
\* the project's lists are pairwise distinct again: the two orders are either
\* both exchanged or both unchanged.
C3_SwapKeepsOrdersUnique ==
  (op = "swapOrder" /\ fin \in {"complete", "error"}) =>
    /\ OrdersDistinct
    /\ SwapExchanged \/ SwapUnchanged

\* C4: after a LOGOUT has gone through storeStateGuard every slice is at its
\* initial value, whatever the state before and whatever the payload; the
\* quote slice holds the fallback quote.
C4_LogoutResetsEverySlice ==
  (log # <<>> /\ Last(log).type = LOGOUT) =>
    /\ \A k \in OtherSlices : store[k] = SliceInitialState(k)
    /\ store.quote = initialState
    /\ store.quote.quote = FallbackQuote
    /\ store = initState

\* a LOGOUT dispatched after a quote was fetched and another slice was filled
C4_Witness ==
  /\ Len(log) = 3
  /\ log[1].type = QUOTE_SUCCESS
  /\ log[2].type = SliceActionType("auth")
  /\ log[3].type = LOGOUT
  /\ store.quote.quote = FallbackQuote

\* C5: inviteMembers first GETs the project and only then PATCHes members
\* with the union of the fetched members and the invited ids: every id of
\* either list and no other, none twice, in the order of first appearance in
\* (fetched members, then invited ids), so existing ids keep their relative
\* order and new ids follow in input order; when every invited user is
\* already a member the patched members are set-equal to the fetched ones.
C5_InviteMembersPatchesUnion ==
  op = "inviteMembers" =>
    /\ Len(req) \in {1, 2}
    /\ req[1].m = "GET" /\ req[1].res = "projects" /\ req[1].id = arg.projectId
    /\ Len(req) = 2 =>
         /\ req[1].cs = "ok"
         /\ req[2].m = "PATCH" /\ req[2].res = "projects" /\ req[2].id = arg.projectId
         /\ LET old == req[1].resp.members
                invited == InvitedIds(arg.users)
                new == req[2].body.members IN
              /\ Range(new) = Range(old) \cup Range(invited)
              /\ NoDuplicates(new)
              /\ \A a, b \in Range(new) :
                   FirstPos(new, a) < FirstPos(new, b)
                     <=> FirstPos(old \o invited, a) < FirstPos(old \o invited, b)
              /\ Range(invited) \subseteq Range(old) => Range(new) = Range(old)

\* the PATCH issued for a project with members, inviting one member again
\* together with one new user
C5_Witness ==
  /\ op = "inviteMembers" /\ Len(req) = 2
  /\ req[1].resp.members # <<>>
  /\ \E k \in 1..Len(arg.users) : arg.users[k].id \in Range(req[1].resp.members)
  /\ \E k \in 1..Len(arg.users) : arg.users[k].id \notin Range(req[1].resp.members)
  /\ fin = "complete"

\* C6: in del, swapOrder and initializeTaskLists, once any constituent request
\* has failed the operation has failed and has emitted no value; in del, once
\* a task-list delete has failed no project delete is ever issued.
C6_CompositeFailsAsUnit ==
  op \in {"del", "swapOrder", "initializeTaskLists"} =>
    /\ (\E i \in 1..Len(req) : req[i].cs = "err") => fin = "error" /\ emitted = <<>>
    /\ fin = "error" => emitted = <<>>
    /\ (op = "del" /\ \E i \in ListDeletes : req[i].cs = "err") => ProjectDeletes = {}

\* del has failed on one task-list delete after another one had succeeded
C6_Witness ==
  /\ op = "del" /\ fin = "error"
  /\ \E i, j \in ListDeletes : req[i].cs = "err" /\ req[j].cs = "ok"

SelectedOrders == {sel.entities[sel.ids[k]].order : k \in 1..Len(sel.ids)}

\* C7: for any non-empty selection getMaxListOrder returns the maximum order:
\* it is one of the selected orders and no selected order is greater.
C7_MaxListOrderIsMaximum ==
  (sel # NoBody /\ sel.ids # <<>>) =>
    /\ sel.result \in SelectedOrders
    /\ \A o \in SelectedOrders : o <= sel.result

\* C8: the quote reducer returns the slice it was given for every action whose
\* type is not QUOTE_SUCCESS, and storeStateGuard hands every action other
\* than LOGOUT to the root reducer with the state as it is.
C8_UnknownActionLeavesSlice ==
  /\ [](\A a \in Actions : a.type # QUOTE_SUCCESS => reducer(store.quote, a) = store.quote)
  /\ [][log' # log =>
          /\ Last(log').type \notin {QUOTE_SUCCESS, LOGOUT} => store'.quote = store.quote
          /\ Last(log').type # LOGOUT => store' = reducers(store, Last(log'))
          /\ Last(log').type \in {QUOTE_FAIL, "@@UNKNOWN"} => store' = store]_vars

\* QUOTE_FAIL dispatched on a store holding a fetched quote
C8_Witness ==
  /\ Len(log) = 2
  /\ log[1].type = QUOTE_SUCCESS
  /\ log[2].type = QUOTE_FAIL
  /\ store.quote.quote = log[1].payload

InFlight == {i \in 1..Len(req) : req[i].cs = "inflight"}

RECURSIVE QuoteCalledFor(_)
QuoteCalledFor(l) ==
  IF l = <<>> THEN FallbackQuote
  ELSE IF Last(l).type = QUOTE_SUCCESS THEN Last(l).payload
  ELSE IF Last(l).type = LOGOUT THEN FallbackQuote
  ELSE QuoteCalledFor(SubSeq(l, 1, Len(l) - 1))

\* C10: after any sequence of dispatched actions the quote slice holds the
\* payload of the most recent QUOTE_SUCCESS after the last LOGOUT, or the
\* fallback quote if there is none; QUOTE_FAIL never changes it.
C10_QuoteIsLastSuccessSinceLogout ==
  /\ store.quote.quote = QuoteCalledFor(log)
  /\ \A a \in Actions : a.type = QUOTE_FAIL => storeStateGuard(store, a).quote = store.quote

\* two quotes fetched one after the other, then a failed fetch
C10_Witness ==
  /\ Len(log) = 3
  /\ log[1].type = QUOTE_SUCCESS /\ log[2].type = QUOTE_SUCCESS
  /\ log[1].payload # log[2].payload
  /\ log[3].type = QUOTE_FAIL
  /\ store.quote.quote = log[2].payload
====
